---------------------------- MODULE Spec2Model ----------------------------
(***************************************************************************)
(* Model of weeklyupdate.py, the Program Executive Scorecard: the column   *)
(* normalisation of an uploaded workbook, the health and risk classifiers, *)
(* the sidebar filters, the milestone buckets and the executive metrics.   *)
(*                                                                         *)
(* A Python string is a sequence of one-character strings, so that         *)
(* str.strip, str.lower, str.isdigit, int() and the "in" substring test    *)
(* are computed character by character.                                    *)
(***************************************************************************)
EXTENDS Integers, Sequences, FiniteSets, TLC

---------------------------------------------------------------------------
(* Bounds of the model. *)

\* Number of fragments concatenated into a Health cell.
MaxHealthFragments == 2
\* Number of fragments concatenated into an Impact cell.
MaxRiskFragments == 2
\* Number of rows of the Milestones sheet.
MaxMilestones == 2
\* Resolution of time: a day is this many ticks, so that a Target Date
\* can carry a time of day.
TicksPerDay == 2
\* Number of columns of a parsed sheet.
MaxColumns == 3
\* Number of rows of a parsed sheet.
MaxRows == 1
\* Number of rows of the Portfolio sheet.
MaxInitiatives == 2
\* The day the run takes place (datetime.now().date()), as a day number.
CurrentDay == 200

---------------------------------------------------------------------------
(* Python str operations. *)

UpperCase == <<"A","B","C","D","E","F","G","H","I","J","K","L","M","N","O","P","Q","R","S","T","U","V","W","X","Y","Z">>
LowerCase == <<"a","b","c","d","e","f","g","h","i","j","k","l","m","n","o","p","q","r","s","t","u","v","w","x","y","z">>

\* Characters str.strip() removes: the white space of the cells modelled.
Whitespace == {" ", "\t", "\n"}

\* The ASCII decimal digits, in order of value.
DecimalDigits == <<"0","1","2","3","4","5","6","7","8","9">>

\* Characters for which str.isdigit() is true and int() raises ValueError:
\* the superscript digits (Numeric_Type=Digit), here U+00B2 SUPERSCRIPT TWO.
SuperscriptDigits == {"U+00B2"}

lower_char(c) ==
    IF \E i \in 1..Len(UpperCase) : UpperCase[i] = c
    THEN LowerCase[CHOOSE i \in 1..Len(UpperCase) : UpperCase[i] = c]
    ELSE c

upper_char(c) ==
    IF \E i \in 1..Len(LowerCase) : LowerCase[i] = c
    THEN UpperCase[CHOOSE i \in 1..Len(LowerCase) : LowerCase[i] = c]
    ELSE c

\* str.lower()
lower(s) == [i \in 1..Len(s) |-> lower_char(s[i])]

\* str.capitalize(): first character upper-cased, the rest lower-cased.
capitalize(s) == [i \in 1..Len(s) |-> IF i = 1 THEN upper_char(s[i]) ELSE lower_char(s[i])]

\* str.title(): a letter after a non-letter is upper-cased, any other lower-cased.
IsLetter(c) == lower_char(c) # c \/ upper_char(c) # c
title(s) ==
    [i \in 1..Len(s) |->
        IF i = 1 \/ ~IsLetter(s[i - 1]) THEN upper_char(s[i]) ELSE lower_char(s[i])]

\* str.strip()
strip(s) ==
    LET keep == {i \in 1..Len(s) : s[i] \notin Whitespace}
    IN  IF keep = {} THEN << >>
        ELSE LET first == CHOOSE i \in keep : \A j \in keep : i <= j
                 last  == CHOOSE i \in keep : \A j \in keep : j <= i
             IN  SubSeq(s, first, last)

\* sub in s
Contains(sub, s) ==
    \E i \in 0..(Len(s) - Len(sub)) : SubSeq(s, i + 1, i + Len(sub)) = sub

\* str.isdigit(): non-empty and every character a digit.
isdigit(s) ==
    /\ Len(s) > 0
    /\ \A i \in 1..Len(s) :
          \/ \E d \in 1..Len(DecimalDigits) : DecimalDigits[d] = s[i]
          \/ s[i] \in SuperscriptDigits

\* Whether int(s) raises ValueError for a string with isdigit(s).
int_raises(s) == \E i \in 1..Len(s) : s[i] \in SuperscriptDigits

DigitValue(c) == (CHOOSE d \in 1..Len(DecimalDigits) : DecimalDigits[d] = c) - 1

\* int(s) for a string of decimal digits.
RECURSIVE int(_)
int(s) ==
    IF Len(s) = 0 THEN 0
    ELSE 10 * int(SubSeq(s, 1, Len(s) - 1)) + DigitValue(s[Len(s)])

\* Concatenations of at most n fragments.
RECURSIVE Texts(_, _)
Texts(fragments, n) ==
    IF n = 0 THEN {<< >>}
    ELSE LET shorter == Texts(fragments, n - 1)
         IN  shorter \cup {t \o f : t \in shorter, f \in fragments}

---------------------------------------------------------------------------
(* Cell values.  A cell is None, a float NaN, a number or a string; repr   *)
(* is what str(value) returns for it.                                      *)

NoneValue == [kind |-> "None", repr |-> <<"N","o","n","e">>]
NaNValue == [kind |-> "float_nan", repr |-> <<"n","a","n">>]
StrValue(s) == [kind |-> "str", repr |-> s]
\* pd.NA, the cell of a column ensure_columns added.
NAValue == [kind |-> "NA", repr |-> <<"<","N","A",">">>]
NumberValues ==
    { [kind |-> "int", repr |-> <<"3">>],
      [kind |-> "int", repr |-> <<"0">>],
      [kind |-> "float", repr |-> <<"2",".","0">>] }

\* value is None or (isinstance(value, float) and pd.isna(value))
IsNoneOrNaN(value) == value.kind \in {"None", "float_nan"}

---------------------------------------------------------------------------
(* Module constants. *)

STATUS_ORDER ==
    << <<"A","t"," ","R","i","s","k">>, <<"W","a","t","c","h">>, <<"O","n"," ","H","o","l","d">>, <<"N","o","t"," ","S","t","a","r","t","e","d">>,
       <<"O","n"," ","T","r","a","c","k">>, <<"C","o","m","p","l","e","t","e">>, <<"U","n","k","n","o","w","n">> >>

\* RISK_LEVEL_MAP as (key, value) pairs.
RISK_LEVEL_MAP ==
    << <<<<"l","o","w">>, 1>>, <<<<"m","e","d","i","u","m">>, 2>>, <<<<"m","e","d">>, 2>>,
       <<<<"h","i","g","h">>, 3>>, <<<<"c","r","i","t","i","c","a","l">>, 3>> >>

---------------------------------------------------------------------------
(* Transformation helpers. *)

\* The loose classifier's fallback, text.title(), in place of "Unknown".
categorize_health_passthrough(value) ==
    IF IsNoneOrNaN(value) THEN <<"U","n","k","n","o","w","n">>
    ELSE LET text == lower(strip(value.repr))
         IN  IF text \in {<<"g","r","e","e","n">>, <<"o","n"," ","t","r","a","c","k">>, <<"g","o","o","d">>} THEN <<"O","n"," ","T","r","a","c","k">>
             ELSE IF text \in {<<"y","e","l","l","o","w">>, <<"a","m","b","e","r">>, <<"w","a","t","c","h">>, <<"c","a","u","t","i","o","n">>} THEN <<"W","a","t","c","h">>
             ELSE IF text \in {<<"r","e","d">>, <<"c","r","i","t","i","c","a","l">>, <<"o","f","f"," ","t","r","a","c","k">>, <<"b","l","o","c","k","e","d">>} THEN <<"A","t"," ","R","i","s","k">>
             ELSE IF Contains(<<"h","o","l","d">>, text) THEN <<"O","n"," ","H","o","l","d">>
             ELSE IF \/ Contains(<<"c","o","m","p","l","e","t","e">>, text)
                     \/ Contains(<<"d","o","n","e">>, text)
                     \/ Contains(<<"c","l","o","s","e","d">>, text) THEN <<"C","o","m","p","l","e","t","e">>
             ELSE IF Contains(<<"n","o","t"," ","s","t","a","r","t","e","d">>, text) \/ text = <<"t","b","d">> THEN <<"N","o","t"," ","S","t","a","r","t","e","d">>
             ELSE title(text)

\* "not started" tested before "hold" and "complete".
categorize_health_reordered(value) ==
    IF IsNoneOrNaN(value) THEN <<"U","n","k","n","o","w","n">>
    ELSE LET text == lower(strip(value.repr))
         IN  IF text \in {<<"g","r","e","e","n">>, <<"o","n"," ","t","r","a","c","k">>, <<"g","o","o","d">>} THEN <<"O","n"," ","T","r","a","c","k">>
             ELSE IF text \in {<<"y","e","l","l","o","w">>, <<"a","m","b","e","r">>, <<"w","a","t","c","h">>, <<"c","a","u","t","i","o","n">>} THEN <<"W","a","t","c","h">>
             ELSE IF text \in {<<"r","e","d">>, <<"c","r","i","t","i","c","a","l">>, <<"o","f","f"," ","t","r","a","c","k">>, <<"b","l","o","c","k","e","d">>} THEN <<"A","t"," ","R","i","s","k">>
             ELSE IF Contains(<<"n","o","t"," ","s","t","a","r","t","e","d">>, text) \/ text = <<"t","b","d">> THEN <<"N","o","t"," ","S","t","a","r","t","e","d">>
             ELSE IF Contains(<<"h","o","l","d">>, text) THEN <<"O","n"," ","H","o","l","d">>
             ELSE IF \/ Contains(<<"c","o","m","p","l","e","t","e">>, text)
                     \/ Contains(<<"d","o","n","e">>, text)
                     \/ Contains(<<"c","l","o","s","e","d">>, text) THEN <<"C","o","m","p","l","e","t","e">>
             ELSE <<"U","n","k","n","o","w","n">>

\* "critical" and "blocked" matched as substrings, as the loose classifier does.
categorize_health_loose(value) ==
    IF IsNoneOrNaN(value) THEN <<"U","n","k","n","o","w","n">>
    ELSE LET text == lower(strip(value.repr))
         IN  IF text \in {<<"g","r","e","e","n">>, <<"o","n"," ","t","r","a","c","k">>, <<"g","o","o","d">>} THEN <<"O","n"," ","T","r","a","c","k">>
             ELSE IF text \in {<<"y","e","l","l","o","w">>, <<"a","m","b","e","r">>, <<"w","a","t","c","h">>, <<"c","a","u","t","i","o","n">>} THEN <<"W","a","t","c","h">>
             ELSE IF \/ text \in {<<"r","e","d">>, <<"o","f","f"," ","t","r","a","c","k">>}
                     \/ Contains(<<"c","r","i","t","i","c","a","l">>, text)
                     \/ Contains(<<"b","l","o","c","k","e","d">>, text) THEN <<"A","t"," ","R","i","s","k">>
             ELSE IF Contains(<<"h","o","l","d">>, text) THEN <<"O","n"," ","H","o","l","d">>
             ELSE IF \/ Contains(<<"c","o","m","p","l","e","t","e">>, text)
                     \/ Contains(<<"d","o","n","e">>, text)
                     \/ Contains(<<"c","l","o","s","e","d">>, text) THEN <<"C","o","m","p","l","e","t","e">>
             ELSE IF Contains(<<"n","o","t"," ","s","t","a","r","t","e","d">>, text) \/ text = <<"t","b","d">> THEN <<"N","o","t"," ","S","t","a","r","t","e","d">>
             ELSE <<"U","n","k","n","o","w","n">>

categorize_health(value) ==
    IF IsNoneOrNaN(value) THEN <<"U","n","k","n","o","w","n">>
    ELSE LET text == lower(strip(value.repr))
         IN  IF text \in {<<"g","r","e","e","n">>, <<"o","n"," ","t","r","a","c","k">>, <<"g","o","o","d">>} THEN <<"O","n"," ","T","r","a","c","k">>
             ELSE IF text \in {<<"y","e","l","l","o","w">>, <<"a","m","b","e","r">>, <<"w","a","t","c","h">>, <<"c","a","u","t","i","o","n">>} THEN <<"W","a","t","c","h">>
             ELSE IF text \in {<<"r","e","d">>, <<"c","r","i","t","i","c","a","l">>, <<"o","f","f"," ","t","r","a","c","k">>, <<"b","l","o","c","k","e","d">>} THEN <<"A","t"," ","R","i","s","k">>
             ELSE IF Contains(<<"h","o","l","d">>, text) THEN <<"O","n"," ","H","o","l","d">>
             ELSE IF \/ Contains(<<"c","o","m","p","l","e","t","e">>, text)
                     \/ Contains(<<"d","o","n","e">>, text)
                     \/ Contains(<<"c","l","o","s","e","d">>, text) THEN <<"C","o","m","p","l","e","t","e">>
             ELSE IF Contains(<<"n","o","t"," ","s","t","a","r","t","e","d">>, text) \/ text = <<"t","b","d">> THEN <<"N","o","t"," ","S","t","a","r","t","e","d">>
             ELSE <<"U","n","k","n","o","w","n">>


\* The result is [raised, level]: raised when int(text) raises ValueError,
\* which the caller does not catch.
normalize_risk_level(value) ==
    IF IsNoneOrNaN(value) THEN [raised |-> FALSE, level |-> <<"U","n","k","n","o","w","n">>]
    ELSE LET text == lower(strip(value.repr))
         IN  IF isdigit(text)
             THEN IF int_raises(text) THEN [raised |-> TRUE, level |-> << >>]
                  ELSE LET score == int(text)
                       IN  IF score <= 1 THEN [raised |-> FALSE, level |-> <<"L","o","w">>]
                           ELSE IF score = 2 THEN [raised |-> FALSE, level |-> <<"M","e","d","i","u","m">>]
                           ELSE [raised |-> FALSE, level |-> <<"H","i","g","h">>]
             ELSE IF Contains(<<"l","o","w">>, text) THEN [raised |-> FALSE, level |-> capitalize(<<"l","o","w">>)]
             ELSE IF Contains(<<"m","e","d","i","u","m">>, text) THEN [raised |-> FALSE, level |-> capitalize(<<"m","e","d","i","u","m">>)]
             ELSE IF Contains(<<"h","i","g","h">>, text) THEN [raised |-> FALSE, level |-> capitalize(<<"h","i","g","h">>)]
             ELSE IF Contains(<<"c","r","i","t","i","c","a","l">>, text) \/ Contains(<<"s","e","v","e","r","e">>, text)
                  THEN [raised |-> FALSE, level |-> <<"H","i","g","h">>]
             ELSE [raised |-> FALSE, level |-> <<"U","n","k","n","o","w","n">>]

\* level looked up without level.lower().
risk_score_case_sensitive(level) ==
    IF \E i \in 1..Len(RISK_LEVEL_MAP) : RISK_LEVEL_MAP[i][1] = level
    THEN RISK_LEVEL_MAP[CHOOSE i \in 1..Len(RISK_LEVEL_MAP) : RISK_LEVEL_MAP[i][1] = level][2]
    ELSE 0

\* RISK_LEVEL_MAP.get(level.lower(), 0)
risk_score(level) ==
    LET key == lower(level)
    IN  IF \E i \in 1..Len(RISK_LEVEL_MAP) : RISK_LEVEL_MAP[i][1] = key
        THEN RISK_LEVEL_MAP[CHOOSE i \in 1..Len(RISK_LEVEL_MAP) : RISK_LEVEL_MAP[i][1] = key][2]
        ELSE 0

\* A Target Date cell: a time in half days (Timestamp, or a string that parses
\* to it), or a cell pd.to_datetime(errors="coerce") turns into NaT.
Timestamp(t) == [kind |-> "Timestamp", t |-> t]
NaT == [kind |-> "NaT", t |-> 0]
DateString(t) == [kind |-> "date_str", t |-> t]
Unparseable == [kind |-> "text", t |-> 0]

\* pd.to_datetime(series, errors="coerce"), cell by cell
to_datetime(cell) ==
    IF cell.kind \in {"Timestamp", "date_str"} THEN Timestamp(cell.t) ELSE NaT

normalize_date(series) == [i \in 1..Len(series) |-> to_datetime(series[i])]

---------------------------------------------------------------------------
(* Data frames of the script: a function from column name to Series, a    *)
(* Series being the sequence of the column's cells.                        *)

\* Every frame carries its index: the row labels, kept by filtering and sorting.
NumRows(df) == Len(df["index"])

\* RangeIndex(n)
RangeIndex(n) == [i \in 1..n |-> i - 1]

\* The elements of a finite set of integers in ascending order.
RECURSIVE Ascending(_)
Ascending(S) ==
    IF S = {} THEN << >>
    ELSE LET m == CHOOSE x \in S : \A y \in S : x <= y
         IN  <<m>> \o Ascending(S \ {m})

\* df.iloc[idx]: the rows idx, in that order.
Take(df, idx) == [c \in DOMAIN df |-> [k \in 1..Len(idx) |-> df[c][idx[k]]]]

\* df[col] = series
WithColumn(df, col, series) ==
    [c \in DOMAIN df \cup {col} |-> IF c = col THEN series ELSE df[c]]

\* series.isin(values), for one cell
isin(cell, values) == cell \in values

Range(seq) == {seq[i] : i \in 1..Len(seq)}


---------------------------------------------------------------------------
(* The script: state. *)

VARIABLES
    pc,                   \* how far the script has run
    portfolio,            \* data.portfolio.copy() and its derived columns
    milestones,           \* data.milestones.copy() and its derived columns
    risks,                \* data.risks.copy() and its derived columns
    reporting_date,       \* sidebar: "Reporting as of", a day number
    lookahead_days,       \* sidebar: "Milestone look-ahead (days)"
    filtered,             \* the portfolio after the filters
    milestones_filtered,
    risks_filtered,
    upcoming_milestones,
    overdue_milestones,
    metrics,              \* the executive metrics
    health_counts         \* the health distribution charted

script_vars ==
    << pc, portfolio, milestones, risks, reporting_date, lookahead_days, filtered,
       milestones_filtered, risks_filtered, upcoming_milestones, overdue_milestones,
       metrics, health_counts >>

\* A name the script has not assigned yet.
Unassigned == << >>

(* The loader: state. *)

VARIABLES
    xls,                  \* the workbook: sheet name -> the table xls.parse() returns
    loaded,               \* load_scorecard_from_excel's portfolio, milestones, risks
    warnings,             \* the st.warning() calls made, in order
    schema,               \* the synonym table a sheet is normalised with
    heap,                 \* the DataFrame objects: object id -> columns and cells
    locals                \* local name -> object id

loader_vars == << xls, loaded, warnings, schema, heap, locals >>

vars == << script_vars, loader_vars >>

\* st.slider(min_value=14, max_value=120, value=45)
LOOKAHEAD_MIN == 14
LOOKAHEAD_MAX == 120
LOOKAHEAD_DEFAULT == 45

\* Slider positions tried: the two ends and the default.
LookaheadChoices == {LOOKAHEAD_MIN, LOOKAHEAD_DEFAULT, LOOKAHEAD_MAX}

\* st.multiselect("Health categories", options=STATUS_ORDER, default=all but Complete)
DefaultSelectedHealth == {s \in Range(STATUS_ORDER) : s \notin {<<"C","o","m","p","l","e","t","e">>}}

\* Selections of health categories tried.
SelectedHealthChoices ==
    { {}, DefaultSelectedHealth, Range(STATUS_ORDER), {<<"A","t"," ","R","i","s","k">>},
      {<<"U","n","k","n","o","w","n">>, <<"C","o","m","p","l","e","t","e">>} }

\* st.date_input("Reporting as of", datetime.now().date()): the default, and the
\* day before it picked by the user.
ReportingDateChoices == {CurrentDay, CurrentDay - 1}

\* sorted(portfolio[col].dropna().unique()), as a set
Available(series) == {series[i].repr : i \in {j \in 1..Len(series) : series[j].kind = "str"}}

---------------------------------------------------------------------------
(* The script: steps. *)

\* portfolio["Health Category"] = portfolio["Health"].map(categorize_health)
EnrichPortfolio ==
    /\ pc = "loaded"
    /\ portfolio' = WithColumn(portfolio, "Health Category",
           [i \in 1..NumRows(portfolio) |-> categorize_health(portfolio["Health"][i])])
    /\ pc' = "portfolio_enriched"
    /\ UNCHANGED << milestones, risks, reporting_date, lookahead_days, filtered,
                    milestones_filtered, risks_filtered, upcoming_milestones,
                    overdue_milestones, metrics, health_counts >>
    /\ UNCHANGED loader_vars

\* milestones["Target Date"] = normalize_date(...); milestones["Status Category"] = ...
EnrichMilestones ==
    /\ pc = "portfolio_enriched"
    /\ milestones' =
          WithColumn(
              WithColumn(milestones, "Target Date", normalize_date(milestones["Target Date"])),
              "Status Category",
              [i \in 1..NumRows(milestones) |-> categorize_health(milestones["Status"][i])])
    /\ pc' = "milestones_enriched"
    /\ UNCHANGED << portfolio, risks, reporting_date, lookahead_days, filtered,
                    milestones_filtered, risks_filtered, upcoming_milestones,
                    overdue_milestones, metrics, health_counts >>
    /\ UNCHANGED loader_vars

\* risks["Impact Level"], risks["Probability Level"], risks["Severity Score"].
\* An exception of normalize_risk_level ends the run at the statement raising it.
EnrichRisks ==
    /\ pc = "milestones_enriched"
    /\ LET n == NumRows(risks)
           impact == [i \in 1..n |-> normalize_risk_level(risks["Impact"][i])]
           probability == [i \in 1..n |-> normalize_risk_level(risks["Probability"][i])]
           with_impact == WithColumn(risks, "Impact Level", [i \in 1..n |-> impact[i].level])
           with_probability ==
               WithColumn(with_impact, "Probability Level",
                          [i \in 1..n |-> probability[i].level])
       IN  IF \E i \in 1..n : impact[i].raised
           THEN /\ risks' = risks
                /\ pc' = "error"
           ELSE IF \E i \in 1..n : probability[i].raised
           THEN /\ risks' = with_impact
                /\ pc' = "error"
           ELSE /\ risks' = WithColumn(with_probability, "Severity Score",
                       [i \in 1..n |-> risk_score(with_probability["Impact Level"][i])
                                       * risk_score(with_probability["Probability Level"][i])])
                /\ pc' = "risks_enriched"
    /\ UNCHANGED << portfolio, milestones, reporting_date, lookahead_days, filtered,
                    milestones_filtered, risks_filtered, upcoming_milestones,
                    overdue_milestones, metrics, health_counts >>
    /\ UNCHANGED loader_vars

\* The rows of the portfolio that pass the four filters, in order.
FilteredRows(selected_workstreams, selected_owners, selected_health, include_complete) ==
    LET n == NumRows(portfolio)
        by_workstream ==
            IF selected_workstreams # {}
            THEN {i \in 1..n : portfolio["Workstream"][i].kind = "str"
                               /\ portfolio["Workstream"][i].repr \in selected_workstreams}
            ELSE 1..n
        by_owner ==
            IF selected_owners # {}
            THEN {i \in by_workstream : portfolio["Owner"][i].kind = "str"
                                        /\ portfolio["Owner"][i].repr \in selected_owners}
            ELSE by_workstream
        by_health ==
            IF selected_health # {}
            THEN {i \in by_owner : portfolio["Health Category"][i] \in selected_health}
            ELSE by_owner
    IN  IF ~include_complete
        THEN {i \in by_health : portfolio["Health Category"][i] # <<"C","o","m","p","l","e","t","e">>}
        ELSE by_health

\* The sidebar widgets and "Apply filters": filtered, milestones_filtered, risks_filtered.
ApplyFilters ==
    /\ pc = "risks_enriched"
    /\ \E selected_workstreams \in SUBSET Available(portfolio["Workstream"]),
          selected_owners \in SUBSET Available(portfolio["Owner"]),
          selected_health \in SelectedHealthChoices,
          include_complete \in BOOLEAN,
          date \in ReportingDateChoices,
          days \in LookaheadChoices :
          LET kept == Take(portfolio,
                           Ascending(FilteredRows(selected_workstreams, selected_owners,
                                                  selected_health, include_complete)))
              initiatives == Range(kept["Initiative"])
          IN  /\ filtered' = kept
              /\ milestones_filtered' =
                    Take(milestones,
                         Ascending({i \in 1..NumRows(milestones) :
                                       isin(milestones["Initiative"][i], initiatives)}))
              /\ risks_filtered' =
                    Take(risks,
                         Ascending({i \in 1..NumRows(risks) :
                                       isin(risks["Initiative"][i], initiatives)}))
              /\ reporting_date' = date
              /\ lookahead_days' = days
    /\ pc' = "filtered"
    /\ UNCHANGED << portfolio, milestones, risks, upcoming_milestones,
                    overdue_milestones, metrics, health_counts >>
    /\ UNCHANGED loader_vars

\* Whole days rounded towards zero.
DaysFromToday_truncating(target, today) ==
    IF target.kind = "NaT" THEN [nan |-> TRUE, days |-> 0]
    ELSE IF target.t < today
         THEN [nan |-> FALSE, days |-> 0 - ((today - target.t) \div TicksPerDay)]
         ELSE [nan |-> FALSE, days |-> (target.t - today) \div TicksPerDay]

\* (Target Date - today).dt.days: whole days, rounded down; NaN for NaT.
DaysFromToday(target, today) ==
    IF target.kind = "NaT" THEN [nan |-> TRUE, days |-> 0]
    ELSE [nan |-> FALSE, days |-> (target.t - today) \div TicksPerDay]

\* The rows rows of df left in index order, as without sort_values.
SortedOrders_unsorted(df, rows) == {Ascending(rows)}

\* The orders sort_values("Target Date") may give the rows rows of df: ascending
\* Target Date, rows of equal Target Date in either order (quicksort is not stable).
SortedOrders(df, rows) ==
    {idx \in [1..Cardinality(rows) -> rows] :
        /\ \A a, b \in 1..Cardinality(rows) : a # b => idx[a] # idx[b]
        /\ \A a, b \in 1..Cardinality(rows) :
              a < b => df["Target Date"][idx[a]].t <= df["Target Date"][idx[b]].t}

\* today, "Days From Today", upcoming_milestones and overdue_milestones.
MilestoneBuckets ==
    /\ pc = "filtered"
    /\ LET today == reporting_date * TicksPerDay
           n == NumRows(milestones_filtered)
           with_days == WithColumn(milestones_filtered, "Days From Today",
                            [i \in 1..n |->
                                DaysFromToday(milestones_filtered["Target Date"][i], today)])
           offset(i) == with_days["Days From Today"][i]
           upcoming == {i \in 1..n : /\ ~offset(i).nan
                                     /\ offset(i).days >= 0
                                     /\ offset(i).days <= lookahead_days}
           overdue == {i \in 1..n : ~offset(i).nan /\ offset(i).days < 0}
       IN  /\ milestones_filtered' = with_days
           /\ \E idx \in SortedOrders(with_days, upcoming) :
                 upcoming_milestones' = Take(with_days, idx)
           /\ \E idx \in SortedOrders(with_days, overdue) :
                 overdue_milestones' = Take(with_days, idx)
    /\ pc' = "bucketed"
    /\ UNCHANGED << portfolio, milestones, risks, reporting_date, lookahead_days,
                    filtered, risks_filtered, metrics,
                    health_counts >>
    /\ UNCHANGED loader_vars

\* int((series == value).sum())
CountEqual(series, value) == Cardinality({i \in 1..Len(series) : series[i] = value})

\* "Executive metrics": the counts shown in the metric row.
ExecutiveMetrics ==
    /\ pc = "bucketed"
    /\ metrics' =
          [ active_initiatives |-> NumRows(filtered),
            at_risk_count |-> CountEqual(filtered["Health Category"], <<"A","t"," ","R","i","s","k">>),
            watch_count |-> CountEqual(filtered["Health Category"], <<"W","a","t","c","h">>),
            hold_count |-> CountEqual(filtered["Health Category"], <<"O","n"," ","H","o","l","d">>),
            overdue_count |-> NumRows(overdue_milestones),
            upcoming_count |-> NumRows(upcoming_milestones),
            critical_risks |->
                Cardinality({i \in 1..NumRows(risks_filtered) :
                                risks_filtered["Severity Score"][i] >= 6}) ]
    /\ pc' = "rendered"
    /\ UNCHANGED << portfolio, milestones, risks, reporting_date, lookahead_days, filtered,
                    milestones_filtered, risks_filtered, upcoming_milestones,
                    overdue_milestones, health_counts >>
    /\ UNCHANGED loader_vars

\* Each value that occurs counted once, however many rows have it.
value_counts_unique(series) ==
    [v \in Range(series) |-> 1]

\* series.value_counts(): the count of each value that occurs in the series (a
\* Health Category is a str, never the NaN value_counts leaves out).
value_counts(series) ==
    [v \in Range(series) |-> CountEqual(series, v)]

\* counts.reindex(labels, fill_value=0): the count of each label in turn, 0 for a
\* label that does not occur; the count of a value that is no label is dropped.
reindex(counts, labels) ==
    [i \in 1..Len(labels) |-> IF labels[i] \in DOMAIN counts THEN counts[labels[i]] ELSE 0]

\* health_counts: filtered["Health Category"].value_counts().reindex(STATUS_ORDER,
\* fill_value=0).rename_axis("Health Category").reset_index(name="Count")
HealthDistribution ==
    /\ pc = "rendered"
    /\ health_counts' =
          [ c \in {"index", "Health Category", "Count"} |->
              CASE c = "index" -> RangeIndex(Len(STATUS_ORDER))
                [] c = "Health Category" -> STATUS_ORDER
                [] c = "Count" ->
                      reindex(value_counts(filtered["Health Category"]), STATUS_ORDER) ]
    /\ pc' = "charted"
    /\ UNCHANGED << portfolio, milestones, risks, reporting_date, lookahead_days, filtered,
                    milestones_filtered, risks_filtered, upcoming_milestones,
                    overdue_milestones, metrics >>
    /\ UNCHANGED loader_vars

ScriptNext ==
    \/ EnrichPortfolio
    \/ EnrichMilestones
    \/ EnrichRisks
    \/ ApplyFilters
    \/ MilestoneBuckets
    \/ ExecutiveMetrics
    \/ HealthDistribution

---------------------------------------------------------------------------
(* The script: inputs. *)

\* The portfolio row the sheets refer to, and another initiative.
ThisInitiative == StrValue(<<"D","i","g","i","t","a","l"," ","O","n","b","o","a","r","d","i","n","g">>)
OtherInitiative == StrValue(<<"F","i","e","l","d"," ","M","o","b","i","l","e"," ","A","p","p">>)

HealthFragments ==
    { <<"g","r","e","e","n">>, <<"G","r","e","e","n">>, <<"o","n"," ","t","r","a","c","k">>, <<"g","o","o","d">>, <<"y","e","l","l","o","w">>, <<"a","m","b","e","r">>, <<"w","a","t","c","h">>,
      <<"c","a","u","t","i","o","n">>, <<"r","e","d">>, <<"R","E","D">>, <<"c","r","i","t","i","c","a","l">>, <<"o","f","f"," ","t","r","a","c","k">>, <<"b","l","o","c","k","e","d">>,
      <<"h","o","l","d">>, <<"c","o","m","p","l","e","t","e">>, <<"d","o","n","e">>, <<"c","l","o","s","e","d">>, <<"n","o","t"," ","s","t","a","r","t","e","d">>, <<"t","b","d">>, <<" ">>,
      <<"O","n"," ","H","o","l","d"," ","-"," ","v","e","n","d","o","r">>, <<"C","r","i","t","i","c","a","l"," ","i","s","s","u","e",","," ","b","l","o","c","k","e","d">>, <<"x">> }

HealthInputs ==
    {NoneValue, NaNValue, NAValue} \cup NumberValues
        \cup {StrValue(t) : t \in Texts(HealthFragments, MaxHealthFragments)}

RiskFragments ==
    { <<"l","o","w">>, <<"m","e","d","i","u","m">>, <<"h","i","g","h">>, <<"c","r","i","t","i","c","a","l">>, <<"s","e","v","e","r","e">>, <<"L","o","w">>, <<"H","I","G","H">>,
      <<"0">>, <<"1">>, <<"2">>, <<"3">>, <<"7">>, <<"U+00B2">>, <<" ">>, <<"x">> }

ImpactInputs ==
    {NoneValue, NaNValue, NAValue} \cup NumberValues
        \cup {StrValue(t) : t \in Texts(RiskFragments, MaxRiskFragments)}

ProbabilityInputs ==
    { NoneValue, StrValue(<<"L","o","w">>), StrValue(<<"m","e","d","i","u","m">>), StrValue(<<" ","H","I","G","H">>),
      StrValue(<<"2">>), StrValue(<<"n","/","a">>), StrValue(<<"U+00B2">>) }

\* Target Date cells: times around today and around the ends of the look-ahead
\* window, some with a time of day, and cells that do not parse.
TargetDateInputs ==
    LET today == CurrentDay * TicksPerDay
    IN  { Timestamp(today - TicksPerDay), Timestamp(today - 1), Timestamp(today),
          Timestamp(today + LOOKAHEAD_MIN * TicksPerDay + 1),
          Timestamp(today + (LOOKAHEAD_MIN + 1) * TicksPerDay),
          Timestamp(today + LOOKAHEAD_MAX * TicksPerDay + 1),
          Timestamp(today + (LOOKAHEAD_MAX + 1) * TicksPerDay),
          DateString(today + 1), Unparseable }

PortfolioFrame(workstream, owner, health) ==
    [ c \in {"index", "Initiative", "Workstream", "Owner", "Health"} |->
        CASE c = "index" -> RangeIndex(1)
          [] c = "Initiative" -> <<ThisInitiative>>
          [] c = "Workstream" -> <<workstream>>
          [] c = "Owner" -> <<owner>>
          [] c = "Health" -> <<health>> ]

\* A Milestones frame of the rows given as (Initiative, Target Date) pairs.
MilestonesFrame(rows) ==
    [ c \in {"index", "Initiative", "Target Date", "Status"} |->
        CASE c = "index" -> RangeIndex(Len(rows))
          [] c = "Initiative" -> [i \in 1..Len(rows) |-> rows[i][1]]
          [] c = "Target Date" -> [i \in 1..Len(rows) |-> rows[i][2]]
          [] c = "Status" -> [i \in 1..Len(rows) |-> StrValue(<<"G","r","e","e","n">>)] ]

RisksFrame(initiative, impact, probability) ==
    [ c \in {"index", "Initiative", "Impact", "Probability"} |->
        CASE c = "index" -> RangeIndex(1)
          [] c = "Initiative" -> <<initiative>>
          [] c = "Impact" -> <<impact>>
          [] c = "Probability" -> <<probability>> ]

\* The loader is not part of the runs that start from loaded data.
LoaderIdle ==
    /\ xls = Unassigned
    /\ loaded = Unassigned
    /\ warnings = << >>
    /\ schema = "none"
    /\ heap = << >>
    /\ locals = << >>

ScriptStart ==
    /\ LoaderIdle
    /\ pc = "loaded"
    /\ reporting_date = Unassigned
    /\ lookahead_days = Unassigned
    /\ filtered = Unassigned
    /\ milestones_filtered = Unassigned
    /\ risks_filtered = Unassigned
    /\ upcoming_milestones = Unassigned
    /\ overdue_milestones = Unassigned
    /\ metrics = Unassigned
    /\ health_counts = Unassigned

\* One milestone due yesterday and one risk, both of the portfolio's initiative.
PlainMilestones ==
    MilestonesFrame(<< <<ThisInitiative, Timestamp((CurrentDay - 1) * TicksPerDay)>> >>)
PlainRisks == RisksFrame(ThisInitiative, StrValue(<<"H","i","g","h">>), StrValue(<<"h","i","g","h">>))

\* Any Health cell in a one-row portfolio.
InitHealth ==
    /\ ScriptStart
    /\ \E health \in HealthInputs :
          portfolio = PortfolioFrame(StrValue(<<"D","a","t","a">>), StrValue(<<"K","."," ","C","h","e","n">>), health)
    /\ milestones = PlainMilestones
    /\ risks = PlainRisks

SpecHealth == InitHealth /\ [][ScriptNext]_vars

\* Any Impact cell and some Probability cells in a one-row Risks sheet.
InitRisk ==
    /\ ScriptStart
    /\ portfolio = PortfolioFrame(StrValue(<<"D","a","t","a">>), StrValue(<<"K","."," ","C","h","e","n">>), StrValue(<<"G","r","e","e","n">>))
    /\ milestones = PlainMilestones
    /\ \E impact \in ImpactInputs, probability \in ProbabilityInputs :
          risks = RisksFrame(ThisInitiative, impact, probability)

SpecRisk == InitRisk /\ [][ScriptNext]_vars

MilestoneRows == {ThisInitiative, OtherInitiative} \X TargetDateInputs

\* Milestones sheets of at most MaxMilestones rows.
InitMilestones ==
    /\ ScriptStart
    /\ \E workstream \in {StrValue(<<"D","a","t","a">>), NaNValue} :
          portfolio = PortfolioFrame(workstream, StrValue(<<"K","."," ","C","h","e","n">>), StrValue(<<"G","r","e","e","n">>))
    /\ \E n \in 0..MaxMilestones : \E rows \in [1..n -> MilestoneRows] :
          milestones = MilestonesFrame(rows)
    /\ risks = PlainRisks

SpecMilestones == InitMilestones /\ [][ScriptNext]_vars

\* Health cells of a Portfolio sheet of several rows: blank cells and a text of
\* each category, in the spellings a tracker uses.
TallyHealthInputs ==
    { NoneValue, NaNValue, StrValue(<<"g","r","e","e","n">>), StrValue(<<" ","A","m","b","e","r">>), StrValue(<<"R","E","D">>),
      StrValue(<<"O","n"," ","H","o","l","d"," ","-"," ","v","e","n","d","o","r">>), StrValue(<<"d","o","n","e">>), StrValue(<<"n","o","t"," ","s","t","a","r","t","e","d">>),
      StrValue(<<"i","n"," ","f","l","i","g","h","t">>) }

\* A Portfolio frame with the Health cells given, two initiatives and workstreams
\* taking turns down the rows.
PortfolioRows(healths) ==
    [ c \in {"index", "Initiative", "Workstream", "Owner", "Health"} |->
        CASE c = "index" -> RangeIndex(Len(healths))
          [] c = "Initiative" ->
                [i \in 1..Len(healths) |-> IF i % 2 = 1 THEN ThisInitiative ELSE OtherInitiative]
          [] c = "Workstream" ->
                [i \in 1..Len(healths) |->
                    IF i % 2 = 1 THEN StrValue(<<"D","a","t","a">>) ELSE StrValue(<<"O","p","s">>)]
          [] c = "Owner" -> [i \in 1..Len(healths) |-> StrValue(<<"K","."," ","C","h","e","n">>)]
          [] c = "Health" -> healths ]

\* Portfolio sheets of at most MaxInitiatives rows.
InitTally ==
    /\ ScriptStart
    /\ \E n \in 0..MaxInitiatives : \E healths \in [1..n -> TallyHealthInputs] :
          portfolio = PortfolioRows(healths)
    /\ milestones = PlainMilestones
    /\ risks = PlainRisks

SpecTally == InitTally /\ [][ScriptNext]_vars

---------------------------------------------------------------------------
(* The loader: synonym tables, as (canonical, aliases) pairs in dict order. *)

PORTFOLIO_COLUMNS ==
    << <<<<"I","n","i","t","i","a","t","i","v","e">>, <<<<"p","r","o","j","e","c","t">>, <<"p","r","o","j","e","c","t"," ","n","a","m","e">>, <<"i","n","i","t","i","a","t","i","v","e"," ","n","a","m","e">>>>>>,
       <<<<"W","o","r","k","s","t","r","e","a","m">>, <<<<"p","i","l","l","a","r">>, <<"t","o","w","e","r">>, <<"p","o","r","t","f","o","l","i","o">>>>>>,
       <<<<"O","w","n","e","r">>, <<<<"l","e","a","d">>, <<"m","a","n","a","g","e","r">>, <<"p","m">>>>>>,
       <<<<"H","e","a","l","t","h">>, <<<<"r","a","g">>, <<"s","t","a","t","u","s">>, <<"o","v","e","r","a","l","l"," ","s","t","a","t","u","s">>>>>>,
       <<<<"P","e","r","c","e","n","t"," ","C","o","m","p","l","e","t","e">>,
         <<<<"p","e","r","c","e","n","t"," ","c","o","m","p","l","e","t","e">>, <<"%"," ","c","o","m","p","l","e","t","e">>, <<"p","r","o","g","r","e","s","s">>, <<"p","r","o","g","r","e","s","s"," ","(","%",")">>>>>>,
       <<<<"L","a","u","n","c","h"," ","D","a","t","e">>, <<<<"s","t","a","r","t"," ","d","a","t","e">>, <<"k","i","c","k","o","f","f">>>>>>,
       <<<<"T","a","r","g","e","t"," ","D","a","t","e">>, <<<<"e","n","d"," ","d","a","t","e">>, <<"g","o","-","l","i","v","e">>, <<"e","t","a">>, <<"d","u","e"," ","d","a","t","e">>>>>>,
       <<<<"B","u","d","g","e","t">>, <<<<"p","l","a","n","n","e","d"," ","s","p","e","n","d">>, <<"a","l","l","o","c","a","t","e","d"," ","b","u","d","g","e","t">>, <<"b","u","d","g","e","t"," ","(","u","s","d",")">>>>>>,
       <<<<"A","c","t","u","a","l"," ","S","p","e","n","d">>, <<<<"a","c","t","u","a","l","s">>, <<"a","c","t","u","a","l"," ","s","p","e","n","d">>, <<"s","p","e","n","t">>>>>>,
       <<<<"S","t","a","t","u","s"," ","S","u","m","m","a","r","y">>, <<<<"e","x","e","c","u","t","i","v","e"," ","s","u","m","m","a","r","y">>, <<"h","e","a","d","l","i","n","e">>, <<"s","t","a","t","u","s"," ","n","o","t","e","s">>>>>> >>

MILESTONE_COLUMNS ==
    << <<<<"I","n","i","t","i","a","t","i","v","e">>, <<<<"p","r","o","j","e","c","t">>, <<"p","r","o","j","e","c","t"," ","n","a","m","e">>>>>>,
       <<<<"M","i","l","e","s","t","o","n","e">>, <<<<"m","i","l","e","s","t","o","n","e"," ","n","a","m","e">>, <<"d","e","l","i","v","e","r","a","b","l","e">>>>>>,
       <<<<"T","a","r","g","e","t"," ","D","a","t","e">>, <<<<"d","u","e"," ","d","a","t","e">>, <<"e","t","a">>, <<"p","l","a","n","n","e","d"," ","d","a","t","e">>>>>>,
       <<<<"S","t","a","t","u","s">>, <<<<"s","t","a","t","u","s">>, <<"r","a","g">>>>>>,
       <<<<"O","w","n","e","r">>, <<<<"l","e","a","d">>, <<"m","a","n","a","g","e","r">>, <<"p","m">>>>>>,
       <<<<"N","o","t","e","s">>, <<<<"c","o","m","m","e","n","t","s">>, <<"c","o","n","t","e","x","t">>>>>> >>

RISK_COLUMNS ==
    << <<<<"I","n","i","t","i","a","t","i","v","e">>, <<<<"p","r","o","j","e","c","t">>, <<"p","r","o","j","e","c","t"," ","n","a","m","e">>>>>>,
       <<<<"R","i","s","k">>, <<<<"r","i","s","k"," ","d","e","s","c","r","i","p","t","i","o","n">>, <<"r","i","s","k"," ","s","t","a","t","e","m","e","n","t">>>>>>,
       <<<<"I","m","p","a","c","t">>, <<<<"i","m","p","a","c","t"," ","l","e","v","e","l">>, <<"i","m","p","a","c","t"," ","r","a","t","i","n","g">>>>>>,
       <<<<"P","r","o","b","a","b","i","l","i","t","y">>, <<<<"l","i","k","e","l","i","h","o","o","d">>, <<"p","r","o","b","a","b","i","l","i","t","y"," ","l","e","v","e","l">>>>>>,
       <<<<"S","t","a","t","u","s">>, <<<<"s","t","a","t","u","s">>, <<"r","a","g">>>>>>,
       <<<<"M","i","t","i","g","a","t","i","o","n">>, <<<<"m","i","t","i","g","a","t","i","o","n"," ","p","l","a","n">>, <<"r","e","s","p","o","n","s","e">>>>>>,
       <<<<"O","w","n","e","r">>, <<<<"r","i","s","k"," ","o","w","n","e","r">>, <<"o","w","n","e","r">>>>>> >>

\* The synonym table of a sheet.
Synonyms(sheet) ==
    CASE sheet = "Portfolio" -> PORTFOLIO_COLUMNS
      [] sheet = "Milestones" -> MILESTONE_COLUMNS
      [] sheet = "Risks" -> RISK_COLUMNS

\* synonyms.keys()
Keys(synonyms) == [i \in 1..Len(synonyms) |-> synonyms[i][1]]

---------------------------------------------------------------------------
(* Data frames of the loader: the number of rows and the columns in order, *)
(* each a name and its cells.  Two columns may have the same name.         *)

ColumnNames(df) == [i \in 1..Len(df.columns) |-> df.columns[i].name]

\* pd.DataFrame(columns=names)
EmptyFrame(names) ==
    [nrows |-> 0, columns |-> [i \in 1..Len(names) |-> [name |-> names[i], cells |-> << >>]]]

\* The concatenation of a sequence of sequences.
RECURSIVE Concat(_)
Concat(seqs) == IF seqs = << >> THEN << >> ELSE Head(seqs) \o Concat(Tail(seqs))

\* df[labels]: for each label in turn, every column of that name, in position order.
SelectColumns(df, labels) ==
    [ nrows |-> df.nrows,
      columns |-> Concat([k \in 1..Len(labels) |->
                             SelectSeq(df.columns, LAMBDA col : col.name = labels[k])]) ]

\* The assignments lookup[...] = canonical of normalize_columns, in order.
LookupEntries(synonyms) ==
    Concat([i \in 1..Len(synonyms) |->
               << <<lower(synonyms[i][1]), synonyms[i][1]>> >>
                   \o [a \in 1..Len(synonyms[i][2]) |->
                          <<lower(synonyms[i][2][a]), synonyms[i][1]>>]])

\* key in lookup
InLookup(entries, key) == \E i \in 1..Len(entries) : entries[i][1] = key

\* lookup[key]: the last assignment to the key.
Lookup(entries, key) ==
    entries[CHOOSE i \in 1..Len(entries) :
                /\ entries[i][1] = key
                /\ \A j \in 1..Len(entries) : entries[j][1] = key => j <= i][2]

\* The table df.rename(columns=rename_map) returns; df itself is left as it is.
normalize_columns(df, synonyms) ==
    LET entries == LookupEntries(synonyms)
        renamed(col) ==
            LET key == lower(strip(col))
            IN  IF InLookup(entries, key) THEN Lookup(entries, key) ELSE col
    IN  [ nrows |-> df.nrows,
          columns |-> [i \in 1..Len(df.columns) |->
                          [name |-> renamed(df.columns[i].name),
                           cells |-> df.columns[i].cells]] ]

\* The result is [df, result]: df is the argument as the call leaves it (the
\* columns df[col] = pd.NA adds are added to the caller's object), result the new
\* table df[ordered].
ensure_columns(df, required) ==
    LET missing == SelectSeq(required, LAMBDA col : col \notin Range(ColumnNames(df)))
        added ==
            [ nrows |-> df.nrows,
              columns |-> df.columns
                  \o [i \in 1..Len(missing) |->
                         [name |-> missing[i], cells |-> [r \in 1..df.nrows |-> NAValue]]] ]
        ordered ==
            required \o SelectSeq(ColumnNames(added), LAMBDA c : c \notin Range(required))
    IN  [df |-> added, result |-> SelectColumns(added, ordered)]

\* df.copy() with every column name stripped.
sanitize_dataframe(df) ==
    [ nrows |-> df.nrows,
      columns |-> [i \in 1..Len(df.columns) |->
                      [name |-> strip(df.columns[i].name), cells |-> df.columns[i].cells]] ]

---------------------------------------------------------------------------
(* load_scorecard_from_excel, sheet by sheet. *)

\* sanitize_dataframe, normalize_columns and ensure_columns on a parsed sheet.
NormalizedSheet(sheet) ==
    ensure_columns(normalize_columns(sanitize_dataframe(xls[sheet]), Synonyms(sheet)),
                   Keys(Synonyms(sheet))).result

LoaderUnchangedScript == UNCHANGED << portfolio, milestones, risks, reporting_date,
    lookahead_days, filtered, milestones_filtered, risks_filtered, upcoming_milestones,
    overdue_milestones, metrics, health_counts >>

LoadPortfolio ==
    /\ pc = "load_portfolio"
    /\ IF "Portfolio" \in DOMAIN xls
       THEN /\ loaded' = [loaded EXCEPT !.portfolio = NormalizedSheet("Portfolio")]
            /\ warnings' = warnings
       ELSE /\ warnings' = Append(warnings,
                   [sheet |-> "Portfolio",
                    body |-> "No 'Portfolio' tab found. Using an empty portfolio sheet."])
            /\ loaded' = [loaded EXCEPT !.portfolio = EmptyFrame(Keys(PORTFOLIO_COLUMNS))]
    /\ pc' = "load_milestones"
    /\ UNCHANGED << xls, schema, heap, locals >>
    /\ LoaderUnchangedScript

LoadMilestones ==
    /\ pc = "load_milestones"
    /\ IF "Milestones" \in DOMAIN xls
       THEN loaded' = [loaded EXCEPT !.milestones = NormalizedSheet("Milestones")]
       ELSE loaded' = [loaded EXCEPT !.milestones = EmptyFrame(Keys(MILESTONE_COLUMNS))]
    /\ pc' = "load_risks"
    /\ UNCHANGED << xls, warnings, schema, heap, locals >>
    /\ LoaderUnchangedScript

LoadRisks ==
    /\ pc = "load_risks"
    /\ IF "Risks" \in DOMAIN xls
       THEN loaded' = [loaded EXCEPT !.risks = NormalizedSheet("Risks")]
       ELSE loaded' = [loaded EXCEPT !.risks = EmptyFrame(Keys(RISK_COLUMNS))]
    /\ pc' = "return"
    /\ UNCHANGED << xls, warnings, schema, heap, locals >>
    /\ LoaderUnchangedScript

\* return ScorecardData(...)
ReturnScorecard ==
    /\ pc = "return"
    /\ pc' = "returned"
    /\ UNCHANGED loader_vars
    /\ LoaderUnchangedScript

LoadNext ==
    \/ LoadPortfolio
    \/ LoadMilestones
    \/ LoadRisks
    \/ ReturnScorecard

---------------------------------------------------------------------------
(* The three functions one call at a time, on DataFrame objects. *)

\* A fresh object id.
NewObject == Len(heap) + 1

\* sanitize_dataframe(raw)
CallSanitize ==
    /\ pc = "parsed"
    /\ heap' = Append(heap, sanitize_dataframe(heap[locals.raw]))
    /\ locals' = [locals EXCEPT !.sanitized = NewObject]
    /\ pc' = "sanitized"
    /\ UNCHANGED << xls, loaded, warnings, schema >>
    /\ LoaderUnchangedScript

\* normalize_columns(sanitized, synonyms)
CallNormalize ==
    /\ pc = "sanitized"
    /\ heap' = Append(heap, normalize_columns(heap[locals.sanitized], Synonyms(schema)))
    /\ locals' = [locals EXCEPT !.normalized = NewObject]
    /\ pc' = "normalized"
    /\ UNCHANGED << xls, loaded, warnings, schema >>
    /\ LoaderUnchangedScript

\* ensure_columns(normalized, synonyms.keys())
CallEnsure ==
    /\ pc = "normalized"
    /\ LET call == ensure_columns(heap[locals.normalized], Keys(Synonyms(schema)))
       IN  heap' = Append([heap EXCEPT ![locals.normalized] = call.df], call.result)
    /\ locals' = [locals EXCEPT !.ensured = NewObject]
    /\ pc' = "ensured"
    /\ UNCHANGED << xls, loaded, warnings, schema >>
    /\ LoaderUnchangedScript

\* normalize_columns(ensured, synonyms): the normalised table normalised again
CallNormalizeAgain ==
    /\ pc = "ensured"
    /\ heap' = Append(heap, normalize_columns(heap[locals.ensured], Synonyms(schema)))
    /\ locals' = [locals EXCEPT !.normalized_again = NewObject]
    /\ pc' = "normalized_again"
    /\ UNCHANGED << xls, loaded, warnings, schema >>
    /\ LoaderUnchangedScript

\* ensure_columns(normalized_again, synonyms.keys())
CallEnsureAgain ==
    /\ pc = "normalized_again"
    /\ LET call == ensure_columns(heap[locals.normalized_again], Keys(Synonyms(schema)))
       IN  heap' = Append([heap EXCEPT ![locals.normalized_again] = call.df], call.result)
    /\ locals' = [locals EXCEPT !.ensured_again = NewObject]
    /\ pc' = "ensured_again"
    /\ UNCHANGED << xls, loaded, warnings, schema >>
    /\ LoaderUnchangedScript

TableNext ==
    \/ CallSanitize
    \/ CallNormalize
    \/ CallEnsure
    \/ CallNormalizeAgain
    \/ CallEnsureAgain

---------------------------------------------------------------------------
(* The loader: inputs. *)

\* Header cells: canonical names, synonyms in other case or padded with white
\* space, and names no synonym table knows, two of them equal once stripped.
HeaderInputs ==
    { <<"I","n","i","t","i","a","t","i","v","e">>, <<"p","r","o","j","e","c","t">>, <<"e","t","a">>, <<"D","u","e"," ","D","a","t","e">>, <<" ","O","w","n","e","r">>, <<"s","t","a","t","u","s">>,
      <<"R","e","g","i","o","n">>, <<"R","e","g","i","o","n"," ">> }

\* The cell of row r of the sheet's column c.
SheetCell(c, r) == StrValue(<<"column", ToString(c), "row", ToString(r)>>)

\* The table xls.parse() returns for the header cells given: the cells of a header
\* row are distinct (the parser renames a repeated header), and a sheet without
\* a header row has no rows.
ParsedSheet(headers, nrows) ==
    LET n == IF Len(headers) = 0 THEN 0 ELSE nrows
    IN  [ nrows |-> n,
          columns |-> [c \in 1..Len(headers) |->
                          [name |-> headers[c], cells |-> [r \in 1..n |-> SheetCell(c, r)]]] ]

\* Header rows of n distinct header cells.
HeaderRows(n) ==
    {h \in [1..n -> HeaderInputs] : \A a, b \in 1..n : a # b => h[a] # h[b]}

SheetInputs ==
    {ParsedSheet(h, nrows) :
        h \in UNION {HeaderRows(n) : n \in 0..MaxColumns}, nrows \in 0..MaxRows}

ScriptIdle ==
    /\ portfolio = Unassigned
    /\ milestones = Unassigned
    /\ risks = Unassigned
    /\ reporting_date = Unassigned
    /\ lookahead_days = Unassigned
    /\ filtered = Unassigned
    /\ milestones_filtered = Unassigned
    /\ risks_filtered = Unassigned
    /\ upcoming_milestones = Unassigned
    /\ overdue_milestones = Unassigned
    /\ metrics = Unassigned
    /\ health_counts = Unassigned

\* Any parsed sheet, normalised with any of the three synonym tables.
InitTable ==
    /\ ScriptIdle
    /\ pc = "parsed"
    /\ xls = Unassigned
    /\ loaded = Unassigned
    /\ warnings = << >>
    /\ schema \in {"Portfolio", "Milestones", "Risks"}
    /\ \E sheet \in SheetInputs : heap = <<sheet>>
    /\ locals = [raw |-> 1, sanitized |-> 0, normalized |-> 0, ensured |-> 0,
                 normalized_again |-> 0, ensured_again |-> 0]

SpecTable == InitTable /\ [][TableNext]_vars

\* Sheets of an uploaded workbook: one header row of at most one cell, one row.
WorkbookSheetInputs ==
    {ParsedSheet(h, 1) : h \in {<< >>, <<<<"p","r","o","j","e","c","t">>>>, <<<<"E","T","A"," ">>>>, <<<<"R","e","g","i","o","n">>>>}}

\* Any workbook holding some of the three sheets, and perhaps another one.
InitLoad ==
    /\ ScriptIdle
    /\ pc = "load_portfolio"
    /\ \E names \in SUBSET {"Portfolio", "Milestones", "Risks", "Notes"} :
          xls \in [names -> WorkbookSheetInputs]
    /\ loaded = [portfolio |-> EmptyFrame(<< >>), milestones |-> EmptyFrame(<< >>),
                 risks |-> EmptyFrame(<< >>)]
    /\ warnings = << >>
    /\ schema = "none"
    /\ heap = << >>
    /\ locals = << >>

SpecLoad == InitLoad /\ [][LoadNext]_vars

---------------------------------------------------------------------------
(* Properties. *)

Categorized == "Health Category" \in DOMAIN portfolio

CriticalIssueBlocked == StrValue(<<"C","r","i","t","i","c","a","l"," ","i","s","s","u","e",","," ","b","l","o","c","k","e","d">>)

\* Rows of filtered, by position, that the at-risk metric counts.
AtRiskRows == {k \in 1..NumRows(filtered) : filtered["Health Category"][k] = <<"A","t"," ","R","i","s","k">>}

\* C1 as stated: a portfolio row whose Health cell is "Critical issue, blocked"
\* gets Health Category At Risk, and the at-risk metric counts it when the row
\* passes the filters.
C1_CriticalIssueBlockedIsAtRisk ==
    pc = "rendered" =>
        \A i \in 1..NumRows(portfolio) :
            portfolio["Health"][i] = CriticalIssueBlocked =>
                /\ portfolio["Health Category"][i] = <<"A","t"," ","R","i","s","k">>
                /\ \A k \in 1..NumRows(filtered) :
                      filtered["index"][k] = portfolio["index"][i] => k \in AtRiskRows

\* C1 amended: a portfolio row whose Health cell is "Critical issue, blocked"
\* gets Health Category Unknown (the text is in none of the exact-match sets and
\* holds none of the substrings tested), and the at-risk metric does not count it.
C1_CriticalIssueBlockedIsUnknown ==
    /\ Categorized =>
          \A i \in 1..NumRows(portfolio) :
              portfolio["Health"][i] = CriticalIssueBlocked =>
                  portfolio["Health Category"][i] = <<"U","n","k","n","o","w","n">>
    /\ pc = "rendered" =>
          metrics.at_risk_count =
              Cardinality({k \in AtRiskRows : filtered["Health"][k] # CriticalIssueBlocked})

\* The row with Health "Critical issue, blocked" passed the filters and the metrics
\* were computed.
C1_Witness ==
    /\ pc = "rendered"
    /\ NumRows(filtered) = 1
    /\ filtered["Health"][1] = CriticalIssueBlocked

\* C2: categorize_health returns one of the seven labels of STATUS_ORDER for every
\* cell (None, NaN, pd.NA, a number, any text), and Unknown for None, NaN and the
\* empty string.
C2_CategorizeHealthTotal ==
    /\ pc # "loaded" => Categorized
    /\ Categorized =>
          \A i \in 1..NumRows(portfolio) :
              /\ portfolio["Health Category"][i] \in Range(STATUS_ORDER)
              /\ portfolio["Health"][i].kind \in {"None", "float_nan"} =>
                    portfolio["Health Category"][i] = <<"U","n","k","n","o","w","n">>
              /\ portfolio["Health"][i] = StrValue(<< >>) =>
                    portfolio["Health Category"][i] = <<"U","n","k","n","o","w","n">>

\* A text that matches no rule was categorized.
C2_Witness ==
    /\ Categorized
    /\ portfolio["Health"][1] = StrValue(<<"x">> \o <<"t","b","d">>)
    /\ portfolio["Health Category"][1] = <<"U","n","k","n","o","w","n">>

\* The rule list of the specification, in its order, first match winning.
StrictRuleList(value) ==
    IF value.kind \in {"None", "float_nan"} THEN <<"U","n","k","n","o","w","n">>
    ELSE LET text == lower(strip(value.repr))
         IN  CASE text = << >> -> <<"U","n","k","n","o","w","n">>
               [] OTHER ->
                  IF Contains(<<"h","o","l","d">>, text) THEN <<"O","n"," ","H","o","l","d">>
                  ELSE IF \/ Contains(<<"c","o","m","p","l","e","t","e">>, text)
                          \/ Contains(<<"d","o","n","e">>, text)
                          \/ Contains(<<"c","l","o","s","e","d">>, text) THEN <<"C","o","m","p","l","e","t","e">>
                  ELSE IF text \in {<<"g","r","e","e","n">>, <<"o","n"," ","t","r","a","c","k">>, <<"g","o","o","d">>} THEN <<"O","n"," ","T","r","a","c","k">>
                  ELSE IF text \in {<<"y","e","l","l","o","w">>, <<"a","m","b","e","r">>, <<"w","a","t","c","h">>, <<"c","a","u","t","i","o","n">>}
                       THEN <<"W","a","t","c","h">>
                  ELSE IF text \in {<<"r","e","d">>, <<"c","r","i","t","i","c","a","l">>, <<"o","f","f"," ","t","r","a","c","k">>, <<"b","l","o","c","k","e","d">>}
                       THEN <<"A","t"," ","R","i","s","k">>
                  ELSE IF Contains(<<"n","o","t"," ","s","t","a","r","t","e","d">>, text) \/ text = <<"t","b","d">>
                       THEN <<"N","o","t"," ","S","t","a","r","t","e","d">>
                  ELSE <<"U","n","k","n","o","w","n">>

\* C3: for every cell categorize_health returns the label the specification's rule
\* list gives (substring rules for hold and complete first, then the exact-match
\* sets, then not started / tbd), although the code tests the exact-match sets first.
C3_MatchesStrictRuleList ==
    Categorized =>
        \A i \in 1..NumRows(portfolio) :
            portfolio["Health Category"][i] = StrictRuleList(portfolio["Health"][i])

\* A text that holds both "not started" and "hold" was categorized On Hold.
C3_Witness ==
    /\ Categorized
    /\ Contains(<<"n","o","t"," ","s","t","a","r","t","e","d">>, lower(portfolio["Health"][1].repr))
    /\ Contains(<<"h","o","l","d">>, lower(portfolio["Health"][1].repr))
    /\ portfolio["Health Category"][1] = <<"O","n"," ","H","o","l","d">>

\* The mapping of the specification: an integer-parseable digit string by its value,
\* otherwise the substring rules.
StatedRiskLevel(value) ==
    IF value.kind \in {"None", "float_nan"} THEN <<"U","n","k","n","o","w","n">>
    ELSE LET text == lower(strip(value.repr))
         IN  IF isdigit(text) /\ ~int_raises(text)
             THEN IF int(text) <= 1 THEN <<"L","o","w">>
                  ELSE IF int(text) = 2 THEN <<"M","e","d","i","u","m">>
                  ELSE <<"H","i","g","h">>
             ELSE IF Contains(<<"l","o","w">>, text) THEN <<"L","o","w">>
             ELSE IF Contains(<<"m","e","d","i","u","m">>, text) THEN <<"M","e","d","i","u","m">>
             ELSE IF Contains(<<"h","i","g","h">>, text) THEN <<"H","i","g","h">>
             ELSE IF Contains(<<"c","r","i","t","i","c","a","l">>, text) \/ Contains(<<"s","e","v","e","r","e">>, text) THEN <<"H","i","g","h">>
             ELSE <<"U","n","k","n","o","w","n">>

RiskLevels == {<<"L","o","w">>, <<"M","e","d","i","u","m">>, <<"H","i","g","h">>, <<"U","n","k","n","o","w","n">>}

\* C4 as stated: normalize_risk_level maps every Impact cell to the level of the
\* stated rule list, one of Low, Medium, High, Unknown: once the script has passed
\* the statement that maps the Impact column, every row has that Impact Level.
C4_RiskLevelForEveryValue ==
    pc \notin {"loaded", "portfolio_enriched", "milestones_enriched"} =>
        /\ "Impact Level" \in DOMAIN risks
        /\ \A i \in 1..NumRows(risks) :
              /\ risks["Impact Level"][i] = StatedRiskLevel(risks["Impact"][i])
              /\ risks["Impact Level"][i] \in RiskLevels

\* Ordinal of a level as the specification states it.
Ordinal(level) ==
    CASE level = <<"L","o","w">> -> 1
      [] level = <<"M","e","d","i","u","m">> -> 2
      [] level = <<"H","i","g","h">> -> 3
      [] OTHER -> 0

CriticalLevelPairs ==
    { <<<<"H","i","g","h">>, <<"H","i","g","h">>>>, <<<<"H","i","g","h">>, <<"M","e","d","i","u","m">>>>, <<<<"M","e","d","i","u","m">>, <<"H","i","g","h">>>> }

\* C5: the Severity Score of every risk row is Ordinal(Impact Level) *
\* Ordinal(Probability Level), so it is in 0..9 and is 0 when either level is
\* Unknown; a row has score >= 6, and is counted in critical_risks when it passes
\* the filters, exactly when its levels are High/High, High/Medium or Medium/High.
C5_SeverityScore ==
    /\ "Severity Score" \in DOMAIN risks =>
          \A i \in 1..NumRows(risks) :
              LET impact == risks["Impact Level"][i]
                  probability == risks["Probability Level"][i]
                  score == risks["Severity Score"][i]
              IN  /\ impact \in RiskLevels /\ probability \in RiskLevels
                  /\ score = Ordinal(impact) * Ordinal(probability)
                  /\ score \in 0..9
                  /\ (impact = <<"U","n","k","n","o","w","n">> \/ probability = <<"U","n","k","n","o","w","n">>) => score = 0
                  /\ score >= 6 <=> <<impact, probability>> \in CriticalLevelPairs
    /\ pc = "rendered" =>
          metrics.critical_risks =
              Cardinality({k \in 1..NumRows(risks_filtered) :
                  <<risks_filtered["Impact Level"][k], risks_filtered["Probability Level"][k]>>
                      \in CriticalLevelPairs})

\* A High / Medium risk row passed the filters and was counted as critical.
C5_Witness ==
    /\ pc = "rendered"
    /\ NumRows(risks_filtered) = 1
    /\ risks_filtered["Impact Level"][1] = <<"H","i","g","h">>
    /\ risks_filtered["Probability Level"][1] = <<"M","e","d","i","u","m">>
    /\ risks_filtered["Severity Score"][1] = 6
    /\ metrics.critical_risks = 1

Bucketed == pc \in {"bucketed", "rendered", "charted"}

\* The whole-day offset of a time from the reporting date: the d with
\* d days <= t - today < d + 1 days.
WholeDayOffset(t) ==
    CHOOSE d \in -(CurrentDay + 1)..(LOOKAHEAD_MAX + 2) :
        /\ d * TicksPerDay <= t - reporting_date * TicksPerDay
        /\ t - reporting_date * TicksPerDay < (d + 1) * TicksPerDay

InUpcoming(k) == milestones_filtered["index"][k] \in Range(upcoming_milestones["index"])
InOverdue(k) == milestones_filtered["index"][k] \in Range(overdue_milestones["index"])
Dated(k) == milestones_filtered["Target Date"][k].kind = "Timestamp"

\* C6 as stated: every dated milestone of milestones_filtered is in exactly one
\* bucket, Overdue when its whole-day offset is < 0 and Upcoming otherwise.
C6_EveryDatedMilestoneInOneBucket ==
    Bucketed =>
        \A k \in 1..NumRows(milestones_filtered) :
            Dated(k) =>
                IF WholeDayOffset(milestones_filtered["Target Date"][k].t) < 0
                THEN InOverdue(k) /\ ~InUpcoming(k)
                ELSE InUpcoming(k) /\ ~InOverdue(k)

\* C6 amended: a dated milestone of milestones_filtered is in Overdue alone when
\* its whole-day offset is < 0, in Upcoming alone when the offset is in
\* 0..lookahead_days, and in neither bucket when the offset exceeds lookahead_days;
\* a milestone without a date is in neither.
C6_BucketsWithinLookahead ==
    Bucketed =>
        \A k \in 1..NumRows(milestones_filtered) :
            IF ~Dated(k) THEN ~InOverdue(k) /\ ~InUpcoming(k)
            ELSE LET d == WholeDayOffset(milestones_filtered["Target Date"][k].t)
                 IN  /\ InOverdue(k) <=> d < 0
                     /\ InUpcoming(k) <=> (0 <= d /\ d <= lookahead_days)

\* Two dated milestones were bucketed: one a tick before the reporting date
\* (Overdue), one beyond the look-ahead window (in neither bucket).
C6_Witness ==
    /\ Bucketed
    /\ \E j, k \in 1..NumRows(milestones_filtered) :
          /\ milestones_filtered["Target Date"][j] = Timestamp(reporting_date * TicksPerDay - 1)
          /\ InOverdue(j)
          /\ Dated(k)
          /\ milestones_filtered["Days From Today"][k].days > lookahead_days
          /\ ~InUpcoming(k) /\ ~InOverdue(k)

ExpectedSheets == {"Portfolio", "Milestones", "Risks"}

\* The table load_scorecard_from_excel returns for a sheet.
LoadedSheet(sheet) ==
    CASE sheet = "Portfolio" -> loaded.portfolio
      [] sheet = "Milestones" -> loaded.milestones
      [] sheet = "Risks" -> loaded.risks

\* C7 as stated: for each of the three expected sheets that the workbook lacks,
\* load_scorecard_from_excel returns an empty table whose columns are the sheet's
\* canonical columns, and it has surfaced a warning for that sheet.
C7_MissingSheetWarned ==
    pc = "returned" =>
        \A sheet \in ExpectedSheets \ DOMAIN xls :
            /\ LoadedSheet(sheet) = EmptyFrame(Keys(Synonyms(sheet)))
            /\ \E w \in 1..Len(warnings) : warnings[w].sheet = sheet

\* An object that existed before a step is the same after it.
NoObjectMutated == \A o \in 1..Len(heap) : heap'[o] = heap[o]

\* C8 as stated: the calls of normalize_columns and ensure_columns leave the table
\* they are given as it was (same columns, same cells) and return a new table.
C8_InputNotMutated ==
    [][ /\ NoObjectMutated
        /\ Len(heap') > Len(heap) ]_vars

Ensured == locals.ensured # 0

\* The columns of the sanitized table that no canonical name or synonym matches.
Unmatched(df, synonyms) ==
    LET entries == LookupEntries(synonyms)
    IN  SelectSeq(df.columns, LAMBDA col : ~InLookup(entries, lower(strip(col.name))))

\* The columns of the sanitized table that are renamed to the canonical name.
MatchedBy(df, synonyms, canonical) ==
    LET entries == LookupEntries(synonyms)
    IN  SelectSeq(df.columns,
                  LAMBDA col : /\ InLookup(entries, lower(strip(col.name)))
                               /\ Lookup(entries, lower(strip(col.name))) = canonical)

\* The position of a canonical name in the schema, 0 for another name.
SchemaIndex(keys, name) ==
    IF name \in Range(keys) THEN CHOOSE i \in 1..Len(keys) : keys[i] = name ELSE 0

\* C9 as stated: in the table sanitize_dataframe, normalize_columns and
\* ensure_columns give, every canonical column is present, the canonical columns
\* come first, in schema order, the unmatched columns of the input follow them in
\* their original order under their (stripped) names with their cells, and a
\* canonical column that no input column matches is all-null.
C9_CanonicalFirstThenLeftovers ==
    Ensured =>
        LET out == heap[locals.ensured].columns
            keys == Keys(Synonyms(schema))
            input == heap[locals.sanitized]
            leftovers == Unmatched(input, Synonyms(schema))
            canonical == {i \in 1..Len(out) : out[i].name \in Range(keys)}
        IN  /\ \A k \in 1..Len(keys) : \E i \in canonical : out[i].name = keys[k]
            /\ \A i \in canonical : \A j \in 1..Len(out) :
                  /\ j \notin canonical => i < j
                  /\ (j \in canonical /\ i < j) =>
                        SchemaIndex(keys, out[i].name) <= SchemaIndex(keys, out[j].name)
            /\ SubSeq(out, Cardinality(canonical) + 1, Len(out)) = leftovers
            /\ \A i \in canonical :
                  MatchedBy(input, Synonyms(schema), out[i].name) = << >> =>
                      \A r \in 1..Len(out[i].cells) : out[i].cells[r] = NAValue

\* C10 as stated: normalize_columns and ensure_columns applied to the table they
\* gave yield the same column names in the same order with the same cells.
C10_NormalizeIdempotent ==
    locals.ensured_again # 0 => heap[locals.ensured_again] = heap[locals.ensured]

---------------------------------------------------------------------------
(* C11: the health distribution conserves the rows of the filtered         *)
(* portfolio.                                                              *)

Charted == pc = "charted"

\* The sum of a sequence of numbers.
RECURSIVE Sum(_)
Sum(seq) == IF seq = << >> THEN 0 ELSE Head(seq) + Sum(Tail(seq))

\* The rows of the filtered portfolio whose Health cell is blank or is a text no
\* rule of the classifier matches.
BlankOrUnclassifiable ==
    {i \in 1..NumRows(filtered) :
        \/ IsNoneOrNaN(filtered["Health"][i])
        \/ filtered["Health"][i] = StrValue(<<"i","n"," ","f","l","i","g","h","t">>)}

\* C11: the health distribution has one count per label of STATUS_ORDER, in that
\* order; the counts add up to the number of rows of the filtered portfolio; and
\* the rows with a blank or unclassifiable Health cell are all counted under Unknown.
C11_TallyConservesRows ==
    Charted =>
        /\ health_counts["Health Category"] = STATUS_ORDER
        /\ Len(health_counts["Count"]) = Len(STATUS_ORDER)
        /\ Sum(health_counts["Count"]) = NumRows(filtered)
        /\ \A k \in 1..Len(STATUS_ORDER) :
              health_counts["Count"][k] =
                  Cardinality({i \in 1..NumRows(filtered) :
                                  filtered["Health Category"][i] = STATUS_ORDER[k]})
        /\ \A k \in 1..Len(STATUS_ORDER) :
              STATUS_ORDER[k] = <<"U","n","k","n","o","w","n">> =>
                  health_counts["Count"][k] >= Cardinality(BlankOrUnclassifiable)

\* Two rows of the same label were tallied, next to labels with no row, and a
\* blank Health cell was counted under Unknown.
C11_Witness ==
    /\ Charted
    /\ NumRows(filtered) >= 2
    /\ \E k \in 1..Len(STATUS_ORDER) : health_counts["Count"][k] >= 2
    /\ \E k \in 1..Len(STATUS_ORDER) : health_counts["Count"][k] = 0
    /\ \E i \in BlankOrUnclassifiable : IsNoneOrNaN(filtered["Health"][i])

---------------------------------------------------------------------------
(* C12: the order of the milestone tables.                                 *)

\* The Target Date column of a milestone table is in ascending order.
AscendingTargetDate(df) ==
    \A a, b \in 1..NumRows(df) :
        a < b => df["Target Date"][a].t <= df["Target Date"][b].t

\* C12: every entry of overdue_milestones has a Target Date strictly earlier than
\* every entry of upcoming_milestones, and each of the two tables is in ascending
\* Target Date order.
C12_MilestoneOrder ==
    Bucketed =>
        /\ \A o \in 1..NumRows(overdue_milestones), u \in 1..NumRows(upcoming_milestones) :
              /\ overdue_milestones["Target Date"][o].kind = "Timestamp"
              /\ upcoming_milestones["Target Date"][u].kind = "Timestamp"
              /\ overdue_milestones["Target Date"][o].t
                    < upcoming_milestones["Target Date"][u].t
        /\ AscendingTargetDate(overdue_milestones)
        /\ AscendingTargetDate(upcoming_milestones)

\* Both tables have an entry, and the two Target Dates are less than a day apart:
\* the overdue one just before the start of the reporting date, the upcoming one
\* at or after it.
C12_Witness ==
    /\ Bucketed
    /\ NumRows(overdue_milestones) = 1
    /\ NumRows(upcoming_milestones) = 1
    /\ upcoming_milestones["Target Date"][1].t
          - overdue_milestones["Target Date"][1].t < TicksPerDay

---------------------------------------------------------------------------
(* C13: the column names after normalisation.                              *)

\* No two columns of the table have the same name.
DistinctColumnNames(df) ==
    \A a, b \in 1..Len(df.columns) : a # b => df.columns[a].name # df.columns[b].name

\* C13 as stated: when the table given to normalize_columns has pairwise distinct
\* column names, the table ensure_columns returns has pairwise distinct column
\* names and holds each canonical column exactly once, also when two columns of
\* the input are synonyms of the same canonical column.
C13_DistinctColumnNames ==
    (Ensured /\ DistinctColumnNames(heap[locals.sanitized])) =>
        /\ DistinctColumnNames(heap[locals.ensured])
        /\ \A k \in 1..Len(Keys(Synonyms(schema))) :
              Len(SelectSeq(heap[locals.ensured].columns,
                            LAMBDA col : col.name = Keys(Synonyms(schema))[k])) = 1

=============================================================================
